---- MODULE Spec2Model ----
(***************************************************************************)
(* Model of pandas-df-expand.py: the helpers split and join, and the       *)
(* column expansion expand_df.                                              *)
(*                                                                         *)
(* A Python str is a sequence of one-character strings (<<>> is "").  A    *)
(* Python list of str is a sequence of such sequences.  Since "" and []    *)
(* are both <<>>, a table cell is tagged: Text(s) or List(parts).           *)
(***************************************************************************)
EXTENDS Integers, Sequences, FiniteSets, TLC

\* ----------------------------------------------------------------- bounds

\* Longest text handed to split / join when they are called on their own.
MaxLen == 3
\* Most rows of the caller's table.
MaxRows == 2
\* Largest max_column_split a caller passes.
MaxSplit == 3

\* ------------------------------------------------------------ Python str

Alphabet == {"a", "|"}

RECURSIVE StringsOfLen(_)
StringsOfLen(n) ==
    IF n = 0 THEN {<<>>}
    ELSE {<<c>> \o s : c \in Alphabet, s \in StringsOfLen(n - 1)}

Strings == UNION {StringsOfLen(n) : n \in 0..MaxLen}

Min(a, b) == IF a < b THEN a ELSE b
Max(a, b) == IF a < b THEN b ELSE a

\* data[start:stop] of a Python sequence; None as a bound is written by the
\* callers as 0 or Len(data).  A negative bound counts from the end.
SliceBound(i, n) == IF i < 0 THEN Max(i + n, 0) ELSE Min(i, n)

\* The zero-based position data[i] reads; i is within -n..n-1.
PyIndex(i, n) == IF i < 0 THEN i + n ELSE i

PySlice(data, start, stop) ==
    LET n  == Len(data)
        lo == SliceBound(start, n)
        hi == SliceBound(stop, n)
    IN  IF lo >= hi THEN <<>> ELSE SubSeq(data, lo + 1, hi)

StartsWith(s, p) == Len(p) <= Len(s) /\ SubSeq(s, 1, Len(p)) = p

\* str.split(separator) for a non-empty separator: the text is cut at every
\* non-overlapping occurrence of the separator, scanning from the left; cur
\* is the part being collected.
RECURSIVE StrSplit(_, _, _)
StrSplit(s, sep, cur) ==
    IF s = <<>> THEN <<cur>>
    ELSE IF StartsWith(s, sep)
         THEN <<cur>> \o StrSplit(SubSeq(s, Len(sep) + 1, Len(s)), sep, <<>>)
         ELSE StrSplit(Tail(s), sep, Append(cur, Head(s)))

\* join_char.join(parts)
RECURSIVE StrJoin(_, _)
StrJoin(join_char, parts) ==
    IF parts = <<>> THEN <<>>
    ELSE IF Len(parts) = 1 THEN Head(parts)
    ELSE Head(parts) \o join_char \o StrJoin(join_char, Tail(parts))

\* itertools.repeat(x, n) as a list: no element when n <= 0.
Repeat(x, n) == [i \in 1..Max(n, 0) |-> x]

\* ------------------------------------------------------- split and join

SplitDropsEmpty(data, separator) ==
    SelectSeq(StrSplit(data, separator, <<>>), LAMBDA p : p # <<>>)

split(data, separator) ==
    IF data = <<>> THEN <<>> ELSE StrSplit(data, separator, <<>>)

join(data, join_char, max_column_split, missing_value) ==
    LET normal  == PySlice(data, 0, max_column_split - 1)
        joined  == StrJoin(join_char, PySlice(data, max_column_split - 1, Len(data)))
        joinedL == IF joined # <<>> THEN <<joined>> ELSE <<>>
        missing == Repeat(missing_value, max_column_split - Len(data))
    IN  normal \o joinedL \o missing

\* ------------------------------------------------------ tables (pandas)

Text(s) == [t |-> "str", v |-> s]
List(parts) == [t |-> "list", v |-> parts]

DataFrame(columns, rows) == [type |-> "DataFrame", columns |-> columns, rows |-> rows]
Series(name, values) == [type |-> "Series", name |-> name, values |-> values]

SeqToSet(s) == {s[i] : i \in DOMAIN s}

\* Positions of the columns carrying a label.
Positions(columns, label) == {i \in DOMAIN columns : columns[i] = label}

\* df.columns.get_loc(label), zero-based; the caller checks the label exists.
get_loc(columns, label) == (CHOOSE i \in Positions(columns, label) : TRUE) - 1

\* "{}".format(x) of a natural number.
RECURSIVE Digits(_)
Digits(x) ==
    LET d == <<"0", "1", "2", "3", "4", "5", "6", "7", "8", "9">>
    IN  IF x < 10 THEN <<d[x + 1]>> ELSE Digits(x \div 10) \o <<d[(x % 10) + 1]>>

\* "{}_{}".format(new_column_name, x)
Format(new_column_name, x) == new_column_name \o <<"_">> \o Digits(x)

\* df.iloc[:, column_index] as a Series
iloc(df, column_index) ==
    LET c == PyIndex(column_index, Len(df.columns)) + 1
    IN  Series(df.columns[c], [r \in DOMAIN df.rows |-> df.rows[r][c]])

\* df.drop(label, axis=1): a new table without the columns carrying the label.
RECURSIVE Without(_, _)
Without(s, drop) ==
    \* the elements of s at the positions not in drop, in order
    IF s = <<>> THEN <<>>
    ELSE LET front == Without(SubSeq(s, 1, Len(s) - 1), drop)
         IN  IF Len(s) \in drop THEN front ELSE Append(front, s[Len(s)])

drop(df, label) ==
    LET gone == Positions(df.columns, label)
    IN  DataFrame(Without(df.columns, gone),
                  [r \in DOMAIN df.rows |-> Without(df.rows[r], gone)])

\* The two tables side by side in the wrong order.
concatSwapped(left, right) ==
    DataFrame(right.columns \o left.columns,
              [r \in DOMAIN left.rows |-> right.rows[r] \o left.rows[r]])

\* pd.concat([left, right], axis=1) of two tables over the same row index.
concat(left, right) ==
    DataFrame(left.columns \o right.columns,
              [r \in DOMAIN left.rows |-> left.rows[r] \o right.rows[r]])

\* df[label] = series, on the table itself: the column is replaced where the
\* label exists and appended otherwise.
setitem(df, label, series) ==
    LET at == Positions(df.columns, label)
    IN  IF at = {}
        THEN DataFrame(Append(df.columns, label),
                       [r \in DOMAIN df.rows |-> Append(df.rows[r], series.values[r])])
        ELSE DataFrame(df.columns,
                       [r \in DOMAIN df.rows |->
                           [c \in DOMAIN df.columns |->
                               IF c \in at THEN series.values[r] ELSE df.rows[r][c]]])

\* ------------------------------------------------------------- the state

VARIABLES
    heap,    \* the tables and series alive, by object; "caller" is the caller's table
    args,    \* the arguments of the call to expand_df, as passed
    frame,   \* the local variables of expand_df; df and split_data name objects of heap
    pc,      \* where the call stands
    result,  \* what the call returned, or the exception it raised
    unit,    \* the last call of split or join made on its own
    fs,      \* the file system the packaging tool runs on
    pkg      \* the run of the packaging tool: its position, locals and deletions

vars == <<heap, args, frame, pc, result, unit, fs, pkg>>

None == [type |-> "None"]
NoCall == [fn |-> "none"]
NoFs == [kind |-> <<>>, lines |-> <<>>]
NoRun == [pc |-> "none"]
Raise(exc, msg) == [type |-> "raise", exc |-> exc, msg |-> msg]

\* ------------------------------------------------------------ the inputs

ColumnN == <<"N">>
ColumnE == <<"E">>
BaseColumns == <<ColumnN, ColumnE>>

\* Cell texts of the column to expand: empty, one part, two parts, three
\* parts, and a text ending with the separator.
CellTexts ==
    { <<>>, <<"a">>, <<"a", "|", "b">>, <<"a", "|", "b", "|", "c">>, <<"a", "|">> }

RECURSIVE RowsOfLen(_)
RowsOfLen(n) ==
    IF n = 0 THEN {<<>>}
    ELSE {Append(rows, <<Text(<<"n">>), Text(c)>>) : rows \in RowsOfLen(n - 1), c \in CellTexts}

Tables == {DataFrame(BaseColumns, rows) : rows \in UNION {RowsOfLen(n) : n \in 0..MaxRows}}

Arguments ==
    [ column_name     : {<<>>, ColumnE, <<"Z">>},
      column_index    : -1..Len(BaseColumns),
      separator       : {<<"|">>},
      join_char       : {<<>>, <<",">>},
      missing_value   : {<<"N", "A">>},
      new_column_name : {<<>>, <<"X">>},
      expand          : BOOLEAN,
      drop_old        : BOOLEAN,
      max_column_split : -1..MaxSplit,
      new_data_only   : BOOLEAN ]

Init ==
    /\ heap \in {[caller |-> t] : t \in Tables}
    /\ args = None
    /\ frame = None
    /\ pc = "idle"
    /\ result = None
    /\ unit = NoCall
    /\ fs = NoFs
    /\ pkg = NoRun

\* -------------------------------------------------------------- expand_df

\* The call: the parameters are bound, df to the caller's own table.
Call ==
    /\ pc = "idle"
    /\ \E a \in Arguments :
        /\ args' = a
        /\ frame' = a @@ [df |-> "caller", split_data |-> "none"]
    /\ pc' = "validate"
    /\ UNCHANGED <<heap, result, unit, fs, pkg>>

\* Neither column_name nor column_index given.
SelectorMissing(column_name, column_index) ==
    column_name = <<>> /\ column_index = -1

\* The consistency check left out.
SelectorNeverChecked(columns, column_name, column_index) == FALSE

\* Both given, and column_index is not where column_name stands.
SelectorMismatch(columns, column_name, column_index) ==
    /\ column_name # <<>>
    /\ column_index # -1
    /\ column_index # get_loc(columns, column_name)

RaiseWith(exc, msg) ==
    /\ result' = Raise(exc, msg)
    /\ pc' = "raised"
    /\ UNCHANGED <<heap, args, frame, unit, fs, pkg>>

\* Argument validation.
Validate ==
    /\ pc = "validate"
    /\ LET columns == heap[frame.df].columns
       IN  IF SelectorMissing(frame.column_name, frame.column_index)
           THEN RaiseWith("ValueError", "you need to specify either column_name or column_index")
           ELSE IF frame.column_name # <<>> /\ frame.column_index # -1
                   /\ Positions(columns, frame.column_name) = {}
           THEN RaiseWith("KeyError", "column_name")
           ELSE IF SelectorMismatch(columns, frame.column_name, frame.column_index)
           THEN RaiseWith("ValueError", "you cannot specify both column_name and column_index")
           ELSE IF frame.max_column_split < 0
           THEN RaiseWith("ValueError", "max_column_split must be greater or equal to 0")
           ELSE /\ pc' = "resolve"
                /\ UNCHANGED <<heap, args, frame, result, unit, fs, pkg>>

\* The column's name and position, and the defaults of new_column_name and
\* join_char.
Resolve ==
    /\ pc = "resolve"
    /\ LET columns == heap[frame.df].columns
           n == Len(columns)
           byIndex == frame.column_index # -1
           name == IF byIndex
                   THEN columns[PyIndex(frame.column_index, n) + 1]
                   ELSE frame.column_name
           index == IF byIndex THEN frame.column_index
                    ELSE get_loc(columns, frame.column_name)
       IN  IF byIndex /\ ~(frame.column_index \in -n..(n - 1))
           THEN RaiseWith("IndexError", "column_index")
           ELSE IF ~byIndex /\ Positions(columns, frame.column_name) = {}
           THEN RaiseWith("KeyError", "column_name")
           ELSE /\ frame' = [frame EXCEPT
                               !.column_name = name,
                               !.column_index = index,
                               !.new_column_name =
                                   IF @ = <<>> THEN name ELSE @,
                               !.join_char =
                                   IF @ = <<>> THEN frame.separator ELSE @]
                /\ pc' = "copy"
                /\ UNCHANGED <<heap, args, result, unit, fs, pkg>>

\* df = df.copy() that keeps working on the caller's table.
CopyAliases ==
    /\ pc = "copy"
    /\ pc' = "split"
    /\ UNCHANGED <<heap, args, frame, result, unit, fs, pkg>>

\* df = df.copy()
Copy ==
    /\ pc = "copy"
    /\ heap' = heap @@ [copy |-> heap[frame.df]]
    /\ frame' = [frame EXCEPT !.df = "copy"]
    /\ pc' = "split"
    /\ UNCHANGED <<args, result, unit, fs, pkg>>

\* split_data = df.iloc[:, column_index].apply(lambda x: split(x, separator))
SplitColumn ==
    /\ pc = "split"
    /\ LET column == iloc(heap[frame.df], frame.column_index)
           parts  == [r \in DOMAIN column.values |->
                         split(column.values[r].v, frame.separator)]
       IN  heap' = heap @@ [split_data |-> Series(column.name, parts)]
    /\ frame' = [frame EXCEPT !.split_data = "split_data"]
    /\ pc' = "drop"
    /\ UNCHANGED <<args, result, unit, fs, pkg>>

\* if drop_old: df = df.drop(column_name, axis=1)
DropOld ==
    /\ pc = "drop"
    /\ IF frame.drop_old
       THEN /\ heap' = heap @@ [dropped |-> drop(heap[frame.df], frame.column_name)]
            /\ frame' = [frame EXCEPT !.df = "dropped"]
       ELSE UNCHANGED <<heap, frame, fs, pkg>>
    /\ pc' = "branch"
    /\ UNCHANGED <<args, result, unit, fs, pkg>>

\* max(split_data.apply(len)), for a series with at least one row
RECURSIVE MaxLenOf(_)
MaxLenOf(values) ==
    IF Len(values) = 1 THEN Len(values[1])
    ELSE Max(Len(values[1]), MaxLenOf(Tail(values)))

\* The expand branch: the width, the new columns' names, one joined row per
\* row of split_data (pd.Series(values, index=name_list) raises when the two
\* differ in length), and the table the call returns.
Expand ==
    /\ pc = "branch"
    /\ frame.expand
    /\ LET values == heap[frame.split_data].values
       IN  IF values = <<>>
           THEN RaiseWith("ValueError", "max() arg is an empty sequence")
           ELSE
           LET max_n == MaxLenOf(values)
               max_column_split ==
                   IF frame.max_column_split = 0 THEN max_n ELSE frame.max_column_split
               name_list == [x \in 1..max_column_split |->
                                Format(frame.new_column_name, x - 1)]
               joined == [r \in DOMAIN values |->
                             join(values[r], frame.join_char, max_column_split,
                                  frame.missing_value)]
               expanded_df ==
                   DataFrame(name_list,
                             [r \in DOMAIN values |->
                                 [c \in DOMAIN joined[r] |-> Text(joined[r][c])]])
           IN  IF \E r \in DOMAIN values : Len(joined[r]) # Len(name_list)
               THEN RaiseWith("ValueError", "Length of values does not match length of index")
               ELSE /\ IF frame.new_data_only
                       THEN /\ heap' = heap @@ [expanded_df |-> expanded_df]
                            /\ frame' = [frame EXCEPT
                                           !.max_column_split = max_column_split,
                                           !.df = "expanded_df"]
                       ELSE /\ heap' = heap @@
                                   [expanded_df |-> expanded_df,
                                    concat |-> concat(heap[frame.df], expanded_df)]
                            /\ frame' = [frame EXCEPT
                                           !.max_column_split = max_column_split,
                                           !.df = "concat"]
                    /\ pc' = "return"
                    /\ UNCHANGED <<args, result, unit, fs, pkg>>

\* The other branch: the split results themselves, as the series or set as a
\* column of the table df names.
NoExpand ==
    /\ pc = "branch"
    /\ ~frame.expand
    /\ IF frame.new_data_only
       THEN /\ frame' = [frame EXCEPT !.df = frame.split_data]
            /\ UNCHANGED heap
       ELSE /\ heap' = [heap EXCEPT ![frame.df] =
                           setitem(@, frame.new_column_name,
                                   [heap[frame.split_data] EXCEPT
                                       !.values = [r \in DOMAIN @ |-> List(@[r])]])]
            /\ UNCHANGED frame
    /\ pc' = "return"
    /\ UNCHANGED <<args, result, unit, fs, pkg>>

\* return df
Return ==
    /\ pc = "return"
    /\ result' = heap[frame.df]
    /\ pc' = "returned"
    /\ UNCHANGED <<heap, args, frame, unit, fs, pkg>>

Next ==
    \/ Call
    \/ Validate
    \/ Resolve
    \/ Copy
    \/ SplitColumn
    \/ DropOld
    \/ Expand
    \/ NoExpand
    \/ Return

Spec == Init /\ [][Next]_vars

\* ------------------------------------------- split and join on their own

Separators == StringsOfLen(1) \cup StringsOfLen(2)
JoinChars == {<<",">>, <<"|">>}

InitUnit ==
    /\ heap = [caller |-> DataFrame(BaseColumns, <<>>)]
    /\ args = None
    /\ frame = None
    /\ pc = "idle"
    /\ result = None
    /\ unit = NoCall
    /\ fs = NoFs
    /\ pkg = NoRun

CallSplit ==
    /\ unit = NoCall
    /\ \E data \in Strings, separator \in Separators :
        unit' = [fn |-> "split", data |-> data, separator |-> separator,
                 ret |-> split(data, separator)]
    /\ UNCHANGED <<heap, args, frame, pc, result, fs, pkg>>

\* join on what a split produced.
CallJoin ==
    /\ unit = NoCall
    /\ \E text \in Strings, separator \in Separators, join_char \in JoinChars,
          max_column_split \in 0..MaxSplit :
        LET data == split(text, separator)
        IN  unit' = [fn |-> "join", data |-> data, join_char |-> join_char,
                     max_column_split |-> max_column_split,
                     missing_value |-> <<"N", "A">>,
                     ret |-> join(data, join_char, max_column_split, <<"N", "A">>)]
    /\ UNCHANGED <<heap, args, frame, pc, result, fs, pkg>>

NextUnit ==
    \/ CallSplit
    \/ CallJoin

SpecUnit == InitUnit /\ [][NextUnit]_vars

\* ------------------------------------------- lambda-packager: os, os.path

\* _globals and pip_tmp_dir
pip_files == <<"p", "i", "p", "-", "p", "a", "c", "k", "a", "g", "e", "d", "-", "f", "i", "l", "e", "s", ".", "t", "x", "t">>
anti_req == <<"a", "n", "t", "i", "-", "r", "e", "q", "u", "i", "r", "e", "m", "e", "n", "t", "s", ".", "t", "x", "t">>
zip_target == <<"r", "e", "q", "u", "i", "r", "e", "m", "e", "n", "t", "s", ".", "z", "i", "p">>
pip_tmp_dir == <<".", "d", "i", "s", "t", "/">>

EndsWith(s, p) == Len(p) <= Len(s) /\ SubSeq(s, Len(s) - Len(p) + 1, Len(s)) = p

\* os.path.join(a, b)
path_join(a, b) ==
    IF StartsWith(b, <<"/">>) THEN b
    ELSE IF a = <<>> \/ EndsWith(a, <<"/">>) THEN a \o b
    ELSE a \o <<"/">> \o b

\* s.rstrip('/')
RECURSIVE RStripSlash(_)
RStripSlash(s) ==
    IF s # <<>> /\ s[Len(s)] = "/" THEN RStripSlash(SubSeq(s, 1, Len(s) - 1)) ELSE s

\* p[:p.rfind('/') + 1]
RECURSIVE UpToLastSlash(_)
UpToLastSlash(p) ==
    IF p = <<>> \/ p[Len(p)] = "/" THEN p ELSE UpToLastSlash(SubSeq(p, 1, Len(p) - 1))

\* os.path.dirname(p)
dirname(p) ==
    LET head == UpToLastSlash(p)
    IN  IF head # <<>> /\ RStripSlash(head) # <<>> THEN RStripSlash(head) ELSE head

\* A file system is [kind, lines]: kind maps each node, the sequence of names
\* from the root to it, to "dir" or "file"; lines maps the text files whose
\* content matters to their set of lines.  The root is <<>>.
IsDir(f, node) == node = <<>> \/ (node \in DOMAIN f.kind /\ f.kind[node] = "dir")
IsNode(f, node) == node = <<>> \/ node \in DOMAIN f.kind
Parent(node) == IF node = <<>> THEN <<>> ELSE SubSeq(node, 1, Len(node) - 1)
IsPrefix(a, b) == Len(a) <= Len(b) /\ SubSeq(b, 1, Len(a)) = a

Missing == [ok |-> FALSE, node |-> <<>>]

\* The node an absolute path names, as the system walks it: every name but
\* the last is looked up in a directory, "" and "." stay, ".." goes up.
RECURSIVE Walk(_, _, _)
Walk(f, node, names) ==
    IF names = <<>> THEN [ok |-> TRUE, node |-> node]
    ELSE IF ~IsDir(f, node) THEN Missing
    ELSE LET name == Head(names)
         IN  IF name = <<>> \/ name = <<".">> THEN Walk(f, node, Tail(names))
             ELSE IF name = <<".", ".">> THEN Walk(f, Parent(node), Tail(names))
             ELSE IF IsNode(f, Append(node, name))
                  THEN Walk(f, Append(node, name), Tail(names))
                  ELSE Missing

Lookup(f, path) ==
    IF path = <<>> THEN Missing ELSE Walk(f, <<>>, StrSplit(path, <<"/">>, <<>>))

exists(f, path) == Lookup(f, path).ok
isfile(f, path) == Lookup(f, path).ok /\ ~IsDir(f, Lookup(f, path).node)
isdir(f, path) == Lookup(f, path).ok /\ IsDir(f, Lookup(f, path).node)

\* The file system without a node and everything below it.
RemoveTree(f, node) ==
    LET keep == {n \in DOMAIN f.kind : ~IsPrefix(node, n)}
    IN  [kind  |-> [n \in keep |-> f.kind[n]],
         lines |-> [n \in DOMAIN f.lines \cap keep |-> f.lines[n]]]

\* The file system with the nodes of more added or replaced.
Overlay(f, more) ==
    [kind  |-> [n \in DOMAIN f.kind \cup DOMAIN more.kind |->
                   IF n \in DOMAIN more.kind THEN more.kind[n] ELSE f.kind[n]],
     lines |-> [n \in DOMAIN f.lines \cup DOMAIN more.lines |->
                   IF n \in DOMAIN more.lines THEN more.lines[n] ELSE f.lines[n]]]

\* The directories from the root down to a node, the node left out.
DirsAbove(node) == {SubSeq(node, 1, i) : i \in 1..(Len(node) - 1)}

\* A file at a node, with the directories above it (os.makedirs, open 'w',
\* shutil.copy).
WithFile(f, node) ==
    Overlay(f, [kind  |-> [n \in DirsAbove(node) \cup {node} |->
                              IF n = node THEN "file" ELSE "dir"],
                lines |-> <<>>])

WithLines(f, node, data) ==
    Overlay(WithFile(f, node), [kind |-> <<>>, lines |-> [n \in {node} |-> data]])

\* ---------------------------------------------- lambda-packager: helpers

\* _ok_to_delete(wd, file_path), which ok_to_delete logs and returns
ok_to_delete(f, wd, file_path) ==
    LET parent_dir == IF isfile(f, file_path) THEN dirname(file_path) ELSE file_path
    IN  IF ~exists(f, file_path) THEN FALSE
        ELSE IF ~StartsWith(parent_dir, wd) THEN FALSE
        ELSE IF file_path = wd THEN FALSE
        ELSE TRUE

remove_prefix(self, prefix) ==
    IF StartsWith(self, prefix) THEN SubSeq(self, Len(prefix) + 1, Len(self)) ELSE self

RECURSIVE JoinNames(_, _)
JoinNames(path, names) ==
    IF names = <<>> THEN path ELSE JoinNames(path_join(path, Head(names)), Tail(names))

\* _list_all_files(dir_name, recursive), as a set: the files below dir_name,
\* or, when not recursive, what dir_name holds.
list_complete(f, dir_name, recursive) ==
    LET top   == Lookup(f, dir_name).node
        below == {n \in DOMAIN f.kind : IsPrefix(top, n) /\ n # top}
        found == IF recursive THEN {n \in below : f.kind[n] = "file"}
                 ELSE {n \in below : Len(n) = Len(top) + 1}
    IN  {JoinNames(dir_name, SubSeq(n, Len(top) + 1, Len(n))) : n \in found}

list_all_files(f, dir_name, recursive) ==
    {remove_prefix(x, dir_name) : x \in list_complete(f, dir_name, recursive)}

\* read_file_lines(wd, file_name): the lines as a set, and whether the file is
\* there.
read_file_lines(f, wd, file_name) ==
    LET full_path == wd \o <<"/">> \o file_name
        at        == Lookup(f, full_path)
    IN  IF ~at.ok THEN [data |-> {}, ok |-> FALSE]
        ELSE [data |-> IF at.node \in DOMAIN f.lines THEN f.lines[at.node] ELSE {},
              ok   |-> TRUE]

\* re.sub(r'/\*$', "-*", x) for an x that ends with "/*"
DashStar(x) == SubSeq(x, 1, Len(x) - 2) \o <<"-", "*">>

\* get_slim_pattern(wd), before compilation, for an anti_req file that is
\* there (sp is a list without union when it is not).
get_slim_pattern(f, wd) ==
    LET sp == read_file_lines(f, wd, anti_req).data
    IN  sp \cup {DashStar(x) : x \in {y \in sp : EndsWith(y, <<"/", "*">>)}}

\* re_compile(pattern).match(file): the pattern, "*" replaced by ".*", is
\* matched against the whole name; "." stands for any one character, the
\* other characters drawn here for themselves.
RECURSIVE Matches(_, _)
Matches(pattern, file) ==
    IF pattern = <<>> THEN file = <<>>
    ELSE IF Head(pattern) = "*"
         THEN Matches(Tail(pattern), file)
              \/ (file # <<>> /\ Matches(pattern, Tail(file)))
    ELSE /\ file # <<>>
         /\ Head(pattern) \in {".", Head(file)}
         /\ Matches(Tail(pattern), Tail(file))

get_delete_list(f, wd, all_files) ==
    {file \in all_files : \E pattern \in get_slim_pattern(f, wd) : Matches(pattern, file)}

\* ------------------------------------------------ lambda-packager: a run

WD == <<"/", "p">>
WdNode == <<<<"p">>>>

\* Beside the working directory /p, which holds the directory k of an earlier
\* run: /pq, whose name starts with the working directory's, and /o.
BaseTree ==
    [kind  |-> [n \in { <<<<"p">>>>, <<<<"p">>, <<"k">>>>, <<<<"p">>, <<"k">>, <<"x">>>>,
                        <<<<"p", "q">>>>, <<<<"p", "q">>, <<"x">>>>,
                        <<<<"o">>>>, <<<<"o">>, <<"x">>>> } |->
                   IF n[Len(n)] = <<"x">> THEN "file" ELSE "dir"],
     lines |-> <<>>]

\* Lines the record of emitted files may hold: k, ../o, /pq, an empty line, /o.
RecordedEntries ==
    { <<"k">>, <<".", ".", "/", "o">>, <<"/", "p", "q">>, <<>>, <<"/", "o">> }

\* Lines of the exclusion list: a, b/*.
AntiPatterns == { <<"a">>, <<"b", "/", "*">> }

\* What pip may install under the target: a, b/c, b-d.
Installable == { <<<<"a">>>>, <<<<"b">>, <<"c">>>>, <<<<"b", "-", "d">>>> }

Deletion(f, wd, fn, path) ==
    [fn |-> fn, path |-> path, node |-> Lookup(f, path).node,
     approved |-> ok_to_delete(f, wd, path)]

expand_df_vars == <<heap, args, frame, pc, result, unit>>

Exit(code) ==
    pkg' = [pkg EXCEPT !.pc = "exit", !.ret = code]

InitPkg ==
    /\ heap = [caller |-> DataFrame(BaseColumns, <<>>)]
    /\ args = None
    /\ frame = None
    /\ pc = "idle"
    /\ result = None
    /\ unit = NoCall
    /\ \E recorded \in SUBSET RecordedEntries, anti \in SUBSET AntiPatterns,
          antiThere \in BOOLEAN :
        LET f1 == IF recorded = {} THEN BaseTree
                  ELSE WithLines(BaseTree, Append(WdNode, pip_files), recorded)
            f2 == IF antiThere THEN WithLines(f1, Append(WdNode, anti_req), anti) ELSE f1
        IN  /\ antiThere \/ anti = {}
            /\ fs = f2
    /\ \E output_format \in {"files", "zip"} :
        pkg = [pc |-> "clean_up_old_runs", wd |-> WD, output_format |-> output_format,
               files_to_delete |-> {}, all_new_files |-> {}, deleted |-> {}, ret |-> 0]

\* clean_up_old_runs, up to its loop: the recorded lines, and the record itself
\* when there are any.
CleanUpOldRuns ==
    /\ UNCHANGED expand_df_vars
    /\ pkg.pc = "clean_up_old_runs"
    /\ LET read == read_file_lines(fs, pkg.wd, pip_files).data
           files_to_delete == IF read # {} THEN read \cup {pip_files} ELSE read
       IN  pkg' = [pkg EXCEPT !.pc = "clean_up_loop", !.files_to_delete = files_to_delete]
    /\ UNCHANGED fs

\* One round of the loop of clean_up_old_runs, the set being walked in any
\* order; shutil.rmtree of what is no directory raises OSError, which ends the
\* run with code 1.
CleanUpOldRunsStep ==
    /\ UNCHANGED expand_df_vars
    /\ pkg.pc = "clean_up_loop"
    /\ \E file \in pkg.files_to_delete :
        LET file_path == path_join(pkg.wd, file)
            rest      == pkg.files_to_delete \ {file}
        IN  IF ~ok_to_delete(fs, pkg.wd, file_path)
            THEN /\ pkg' = [pkg EXCEPT !.files_to_delete = rest]
                 /\ UNCHANGED fs
            ELSE LET logged == pkg.deleted \cup {Deletion(fs, pkg.wd, "rmtree", file_path)}
                 IN  IF isdir(fs, file_path)
                     THEN /\ fs' = RemoveTree(fs, Lookup(fs, file_path).node)
                          /\ pkg' = [pkg EXCEPT !.files_to_delete = rest,
                                                !.deleted = logged]
                     ELSE /\ pkg' = [pkg EXCEPT !.pc = "exit", !.ret = 1,
                                                !.deleted = logged]
                          /\ UNCHANGED fs

\* clean_up_pip(wd, pip_tmp_dir): the file system and the deletions after it.
clean_up_pip(f, wd, deleted) ==
    LET dir_path == path_join(wd, pip_tmp_dir)
    IN  IF ok_to_delete(f, wd, dir_path)
        THEN [fs |-> RemoveTree(f, Lookup(f, dir_path).node),
              deleted |-> deleted \cup {Deletion(f, wd, "rmtree", dir_path)}]
        ELSE [fs |-> f, deleted |-> deleted]

\* install_pip_requirements: the target is cleaned, pip runs in wd (OSError
\* when wd is gone, an error when pip fails) and installs some files, which are
\* listed.
InstallPipRequirements ==
    /\ UNCHANGED expand_df_vars
    /\ pkg.pc = "clean_up_loop"
    /\ pkg.files_to_delete = {}
    /\ LET p_dir   == path_join(pkg.wd, pip_tmp_dir)
           cleaned == clean_up_pip(fs, pkg.wd, pkg.deleted)
           target  == Append(Lookup(cleaned.fs, pkg.wd).node, RStripSlash(pip_tmp_dir))
       IN  IF ~isdir(cleaned.fs, pkg.wd)
           THEN /\ fs' = cleaned.fs
                /\ pkg' = [pkg EXCEPT !.pc = "exit", !.ret = 1, !.deleted = cleaned.deleted]
           ELSE \/ /\ fs' = cleaned.fs
                   /\ pkg' = [pkg EXCEPT !.pc = "exit", !.ret = 1,
                                         !.deleted = cleaned.deleted]
                \/ \E installed \in SUBSET Installable \ {{}} :
                    LET f2 == Overlay(cleaned.fs,
                                  [kind |-> [n \in {target} \cup
                                               UNION {DirsAbove(target \o i) \cup {target \o i}
                                                        : i \in installed} |->
                                               IF \E i \in installed : n = target \o i
                                               THEN "file" ELSE "dir"],
                                   lines |-> <<>>])
                    IN  /\ fs' = f2
                        /\ pkg' = [pkg EXCEPT
                                     !.pc = "slim_down_package",
                                     !.deleted = cleaned.deleted,
                                     !.all_new_files = list_all_files(f2, p_dir, TRUE)]

\* slim_down_package, up to its loop: the files the patterns match.  Without
\* the anti_req file get_slim_pattern raises, which ends the run with code 1.
SlimDownPackage ==
    /\ UNCHANGED expand_df_vars
    /\ pkg.pc = "slim_down_package"
    /\ IF ~read_file_lines(fs, pkg.wd, anti_req).ok
       THEN Exit(1)
       ELSE pkg' = [pkg EXCEPT
                      !.pc = "slim_loop",
                      !.files_to_delete = get_delete_list(fs, pkg.wd, pkg.all_new_files)]
    /\ UNCHANGED fs

\* One round of the loop of slim_down_package; os.remove of what is no file
\* raises OSError.
SlimDownPackageStep ==
    /\ UNCHANGED expand_df_vars
    /\ pkg.pc = "slim_loop"
    /\ \E file \in pkg.files_to_delete :
        LET file_path == path_join(path_join(pkg.wd, pip_tmp_dir), file)
            rest      == pkg.files_to_delete \ {file}
        IN  IF ~ok_to_delete(fs, pkg.wd, file_path)
            THEN /\ pkg' = [pkg EXCEPT !.files_to_delete = rest]
                 /\ UNCHANGED fs
            ELSE LET logged == pkg.deleted \cup {Deletion(fs, pkg.wd, "remove", file_path)}
                 IN  IF isfile(fs, file_path)
                     THEN /\ fs' = RemoveTree(fs, Lookup(fs, file_path).node)
                          /\ pkg' = [pkg EXCEPT !.files_to_delete = rest,
                                                !.deleted = logged]
                     ELSE /\ pkg' = [pkg EXCEPT !.pc = "exit", !.ret = 1,
                                                !.deleted = logged]
                          /\ UNCHANGED fs

\* The end of slim_down_package and finalize_packages_list_as_files: the names
\* the target holds are recorded, the kept files copied into wd, the target
\* removed.
FinalizeAsFiles ==
    /\ UNCHANGED expand_df_vars
    /\ pkg.pc = "slim_loop"
    /\ pkg.files_to_delete = {}
    /\ pkg.output_format = "files"
    /\ LET p_dir      == path_join(pkg.wd, pip_tmp_dir)
           kept_files == list_all_files(fs, p_dir, TRUE)
           names      == {n \in list_all_files(fs, p_dir, FALSE) : Len(n) > 0}
           wdNode     == Lookup(fs, pkg.wd).node
           f1 == WithLines(fs, Append(wdNode, pip_files), names)
           copied == {file_name \in kept_files :
                         exists(f1, path_join(path_join(pkg.wd, pip_tmp_dir), file_name))}
           f2 == Overlay(f1,
                    [kind |-> [n \in UNION {LET to == wdNode \o StrSplit(c, <<"/">>, <<>>)
                                            IN  DirsAbove(to) \cup {to} : c \in copied} |->
                                 IF \E c \in copied : n = wdNode \o StrSplit(c, <<"/">>, <<>>)
                                 THEN "file" ELSE "dir"],
                      lines |-> <<>>])
           cleaned == clean_up_pip(f2, pkg.wd, pkg.deleted)
       IN  /\ fs' = cleaned.fs
           /\ pkg' = [pkg EXCEPT !.pc = "exit", !.ret = 0, !.deleted = cleaned.deleted]

\* The end of slim_down_package and finalize_packages_list_as_zip: the archive
\* is written into wd, the target removed.
FinalizeAsZip ==
    /\ UNCHANGED expand_df_vars
    /\ pkg.pc = "slim_loop"
    /\ pkg.files_to_delete = {}
    /\ pkg.output_format # "files"
    /\ LET f1 == WithFile(fs, Append(Lookup(fs, pkg.wd).node, zip_target))
           cleaned == clean_up_pip(f1, pkg.wd, pkg.deleted)
       IN  /\ fs' = cleaned.fs
           /\ pkg' = [pkg EXCEPT !.pc = "exit", !.ret = 0, !.deleted = cleaned.deleted]

NextPkg ==
    \/ CleanUpOldRuns
    \/ CleanUpOldRunsStep
    \/ InstallPipRequirements
    \/ SlimDownPackage
    \/ SlimDownPackageStep
    \/ FinalizeAsFiles
    \/ FinalizeAsZip

SpecPkg == InitPkg /\ [][NextPkg]_vars

\* ---------------------------------------------------------------- claims

Caller == heap.caller
Finished == pc \in {"returned", "raised"}

\* The selector names columns of the table: by a label it carries, by a
\* zero-based position it has, or not at all.
SelectorResolvable ==
    /\ args.column_name \in {<<>>} \cup SeqToSet(Caller.columns)
    /\ args.column_index \in -1..(Len(Caller.columns) - 1)

NeitherGiven == args.column_name = <<>> /\ args.column_index = -1

BothGivenAndDiffer ==
    /\ args.column_name # <<>>
    /\ args.column_index # -1
    /\ Caller.columns[args.column_index + 1] # args.column_name

\* A call the spec accepts: a resolvable, consistent selector and a width >= 0.
ValidCall ==
    /\ pc # "idle"
    /\ SelectorResolvable
    /\ ~NeitherGiven
    /\ ~BothGivenAndDiffer
    /\ args.max_column_split >= 0

\* One-based position of the source column in the caller's table.
SourceAt ==
    IF args.column_index # -1 THEN args.column_index + 1
    ELSE CHOOSE c \in DOMAIN Caller.columns : Caller.columns[c] = args.column_name

BaseName ==
    IF args.new_column_name = <<>> THEN Caller.columns[SourceAt] ELSE args.new_column_name

EffectiveJoinChar ==
    IF args.join_char = <<>> THEN args.separator ELSE args.join_char

SourceParts(r) == split(Caller.rows[r][SourceAt].v, args.separator)

\* The original columns the result keeps, and row r's cells under them.
KeptAt == {c \in DOMAIN Caller.columns : ~(args.drop_old /\ c = SourceAt)}
KeptColumns == Without(Caller.columns, DOMAIN Caller.columns \ KeptAt)
KeptCells(r) == Without(Caller.rows[r], DOMAIN Caller.columns \ KeptAt)

\* The columns of a returned table that follow the first n, with row r's cells.
NewColumns(n) == SubSeq(result.columns, n + 1, Len(result.columns))
NewCells(r, n) == SubSeq(result.rows[r], n + 1, Len(result.rows[r]))
NamedFromBase(columns) ==
    \A c \in DOMAIN columns : columns[c] = Format(BaseName, c - 1)
KeptBefore == IF args.new_data_only THEN 0 ELSE Len(KeptColumns)

\* C1: join returns a sequence of length exactly max_column_split, for every
\* parts sequence a split can produce and every max_column_split >= 0.
C1_JoinLengthIsWidth ==
    unit.fn = "join"
        => Len(unit.ret) = unit.max_column_split

\* C2: for a table with at least one row and max_column_split = k > 0, a call
\* with expand=true yields exactly k new columns named base_0 .. base_{k-1},
\* each row holding exactly k values.
C2_FixedWidthYieldsKColumns ==
    (Finished /\ ValidCall /\ args.expand /\ args.max_column_split > 0
        /\ Len(Caller.rows) >= 1)
    => /\ result.type = "DataFrame"
       /\ Len(NewColumns(KeptBefore)) = args.max_column_split
       /\ NamedFromBase(NewColumns(KeptBefore))
       /\ \A r \in DOMAIN result.rows :
              Len(NewCells(r, KeptBefore)) = args.max_column_split

\* C3: with expand=true and max_column_split=0 the number of new columns is
\* the largest number of split parts of a row; every part of every row stands
\* verbatim in its own column and shorter rows are right-padded with the
\* missing value.
C3_AutoWidthIsMaxParts ==
    (Finished /\ ValidCall /\ args.expand /\ args.max_column_split = 0
        /\ Len(Caller.rows) >= 1)
    => /\ result.type = "DataFrame"
       /\ \A r \in DOMAIN Caller.rows :
              Len(SourceParts(r)) <= Len(NewColumns(KeptBefore))
       /\ \E r \in DOMAIN Caller.rows :
              Len(SourceParts(r)) = Len(NewColumns(KeptBefore))
       /\ \A r \in DOMAIN Caller.rows :
              NewCells(r, KeptBefore) =
                  [c \in DOMAIN NewColumns(KeptBefore) |->
                      IF c <= Len(SourceParts(r))
                      THEN Text(SourceParts(r)[c])
                      ELSE Text(args.missing_value)]

SelectorMessages ==
    { "you need to specify either column_name or column_index",
      "you cannot specify both column_name and column_index" }

RaisedForSelector ==
    /\ pc = "raised"
    /\ result.type = "raise"
    /\ result.exc = "ValueError"
    /\ result.msg \in SelectorMessages

C5_CallerTableNeverMutated == [][heap'.caller = heap.caller]_vars

\* A call that set a column on its own table and returned it.
C5_Witness_SetColumnOnCopy ==
    /\ pc = "returned"
    /\ ~args.expand
    /\ ~args.new_data_only
    /\ ~args.drop_old
    /\ Len(Caller.rows) >= 1
    /\ result.type = "DataFrame"
    /\ result # Caller

\* C6: for max_column_split >= 1 join returns head ++ trailing ++ padding: the
\* first max_column_split-1 parts, then the remaining parts joined by
\* join_char as one value whenever a part remains (empty strings included),
\* then missing_value up to the length max_column_split.
C6_JoinIsHeadTrailingPadding ==
    (unit.fn = "join" /\ unit.max_column_split >= 1)
    => LET w        == unit.max_column_split
           n        == Len(unit.data)
           head     == SubSeq(unit.data, 1, Min(w - 1, n))
           rest     == SubSeq(unit.data, w, n)
           trailing == IF rest # <<>> THEN <<StrJoin(unit.join_char, rest)>> ELSE <<>>
           padding  == [i \in 1..(w - Len(head) - Len(trailing)) |-> unit.missing_value]
       IN  unit.ret = head \o trailing \o padding

\* C7: with expand=false the result holds each row's split result in a single
\* new column named after new_column_name, or after the source column when
\* new_column_name is not given, whether new_data_only is true or false.
C7_NoExpandColumnNamedBase ==
    (Finished /\ ValidCall /\ ~args.expand)
    => IF args.new_data_only
       THEN \/ /\ result.type = "Series"
               /\ result.name = BaseName
               /\ result.values = [r \in DOMAIN Caller.rows |-> SourceParts(r)]
            \/ /\ result.type = "DataFrame"
               /\ result.columns = <<BaseName>>
               /\ result.rows = [r \in DOMAIN Caller.rows |-> <<List(SourceParts(r))>>]
       ELSE /\ result.type = "DataFrame"
            /\ Cardinality(Positions(result.columns, BaseName)) = 1
            /\ \A r \in DOMAIN Caller.rows :
                   \A c \in Positions(result.columns, BaseName) :
                       result.rows[r][c] = List(SourceParts(r))

C9_SplitJoinRoundTrip ==
    unit.fn = "split"
    => /\ StrJoin(unit.separator, unit.ret) = unit.data
       /\ unit.data = <<>> => unit.ret = <<>>
       /\ (unit.data # <<>> /\ \A i \in 0..Len(unit.data) :
               ~StartsWith(SubSeq(unit.data, i + 1, Len(unit.data)), unit.separator))
            => unit.ret = <<unit.data>>

\* A text that starts and ends with the separator, split into empty parts.
C9_Witness_EmptyPartsAtBothEnds ==
    /\ unit.fn = "split"
    /\ Len(unit.ret) = 3
    /\ unit.ret[1] = <<>>
    /\ unit.ret[3] = <<>>
    /\ unit.ret[2] # <<>>

\* C10: a call with a resolvable, consistent selector, max_column_split >= 0
\* and text cells never raises: it returns a table, also for a table without
\* rows and for cells whose split holds empty parts.
C10_OnlyInvalidArgumentsRaise ==
    (Finished /\ ValidCall) => (pc = "returned" /\ result.type \in {"DataFrame", "Series"})

\* C11: every path the packaging tool hands to os.remove or shutil.rmtree was
\* approved by ok_to_delete and names a file or directory strictly inside the
\* working directory, whatever the record of emitted files holds.
C11_DeletesOnlyInsideWd ==
    \A d \in (IF pkg.pc = "none" THEN {} ELSE pkg.deleted) :
        /\ d.approved
        /\ IsPrefix(WdNode, d.node)
        /\ d.node # WdNode

====
